---- MODULE Spec2Model ----
(***************************************************************************)
(* Model of the in-process TTL cache of src/src/lib/cache.ts: the Map of   *)
(* entries, the asynchronous getCachedOrFetch (its synchronous lookup and  *)
(* the continuation after `await fetchFn()`), the three invalidation       *)
(* operations, the hourly cleanup timer and the clock.                     *)
(*                                                                         *)
(* Strings are sequences of one-character strings, so that the key         *)
(* `${userId}:${endpoint}` and String.startsWith are computed, not assumed.*)
(***************************************************************************)
EXTENDS Integers, Sequences, FiniteSets, TLC

VARIABLES cache, calls, now, nextSweep, ticks,
          users, sessions, reqs, clock, minted, sent, tasks, trail

(* The cache, its calls, Date.now() and the timer; trail is a history of   *)
(* the cache that only the steps of TraceSpec write.                       *)
cacheVars == <<cache, calls, now, nextSweep, ticks, trail>>

(* The users, sessions and tasks tables of the store, the HTTP requests in *)
(* flight, the wall clock they read, and the response of the last step.    *)
httpVars == <<users, sessions, reqs, clock, minted, sent, tasks>>

vars == <<cache, calls, now, nextSweep, ticks,
          users, sessions, reqs, clock, minted, sent, tasks, trail>>

(* ------------------------------ bounds -------------------------------- *)
MaxCalls == 2
MaxTicks == 2
MaxTokens == 2
MaxUsers == 2
MaxDays == 2
MaxRows == 2

(* --------------------------- program constants ------------------------ *)
SecondsPerMinute == 60
MsPerSecond == 1000
SweepIntervalMs == 60 * 60 * 1000
SessionDays == 30
MinPasswordLength == 8

(* ------------------------------ inputs -------------------------------- *)
UserIds == { <<"a">>, <<"a", ":", "b">> }
Endpoints == { <<"c">>, <<"b", ":", "c">> }
Pairs == { p \in UserIds \X Endpoints : ~(Len(p[1]) = 3 /\ Len(p[2]) = 3) }
LivePairs == { p \in Pairs : p[2] = <<"c">> }
TtlChoices == { 0, 1 }
Values == { "A", "B" }
Errors == { "E1", "E2" }
TickSteps == { 30000, 3600000 }
Calls == 1..MaxCalls

(* ------------------------------ helpers ------------------------------- *)
getCacheKey(userId, endpoint) == userId \o <<":">> \o endpoint

startsWith(s, prefix) ==
    /\ Len(prefix) <= Len(s)
    /\ SubSeq(s, 1, Len(prefix)) = prefix

MapGet(m, key) == IF key \in DOMAIN m THEN <<m[key]>> ELSE <<>>

MapSet(m, key, entry) ==
    [k \in DOMAIN m \cup {key} |-> IF k = key THEN entry ELSE m[k]]

MapDelete(m, keys) == [k \in DOMAIN m \ keys |-> m[k]]

(* Variants of the expiry test of line 37, as a slip would write it.      *)
IsValidInverted(cached, t) == cached # <<>> /\ cached[1].expiresAt < t

IsValidInclusive(cached, t) == cached # <<>> /\ cached[1].expiresAt >= t

IsValidNoExpiry(cached, t) == cached # <<>>

(* Line 37: `cached && cached.expiresAt > Date.now()`.                     *)
IsValid(cached, t) == cached # <<>> /\ cached[1].expiresAt > t

(* Line 47 with the minutes taken for seconds.                             *)
ExpiresAtSeconds(t, ttlMinutes) == t + (ttlMinutes * MsPerSecond)

(* Line 47: `Date.now() + (ttlMinutes * 60 * 1000)`.                       *)
ExpiresAt(t, ttlMinutes) == t + (ttlMinutes * SecondsPerMinute * MsPerSecond)

(* Variants of the test of line 85.                                        *)
IsExpiredStrict(entry, t) == entry.expiresAt < t

IsExpiredAlways(entry, t) == TRUE

(* Line 85: `entry.expiresAt <= now`.                                      *)
IsExpired(entry, t) == entry.expiresAt <= t

(* The frame of a call: its arguments and locals while it is suspended at  *)
(* `await fetchFn()`; once the call has settled only its outcome is kept.  *)
(* History fields: via is what the lookup of lines 34-37 found ("hit",     *)
(* "absent" or "stale") and invoked counts the calls of fetchFn.           *)
Frame(pc, userId, endpoint, ttl, key, via, invoked, ret, err) ==
    [pc |-> pc, userId |-> userId, endpoint |-> endpoint, ttlMinutes |-> ttl,
     key |-> key, via |-> via,
     invoked |-> invoked, ret |-> ret, err |-> err]

IdleCall == Frame("idle", <<>>, <<>>, 0, <<>>, "none", 0, "none", "none")

Settled(pc, via, invoked, ret, err) ==
    Frame(pc, <<>>, <<>>, 0, <<>>, via, invoked, ret, err)

(* ---------------------- requests and the store ------------------------ *)
(* Strings the routes test character by character are sequences of         *)
(* one-character strings; an absent value (undefined, null) is << >> and a *)
(* present one is <<v>>.                                                   *)
Requests == { 1, 2 }
Emails == { <<>>, <<"a", "@", "b">>, <<"a", "@", "b", ".", "c">> }
Names == { <<>>, <<"n">> }
Passwords == { <<>>, <<"p", "a", "s", "s", "w", "o", "r">>,
               <<"p", "a", "s", "s", "w", "o", "r", "d">> }
DaySteps == { SessionDays }
StoreMessage == "connection refused"
Outcomes == { "ok", "error", "throw" }

(* A request suspended at an await: the route, the await it is at, the     *)
(* session_token cookie, the credentials of the body, the user id the      *)
(* service holds (user.id in the auth service, request.userId in a         *)
(* handler behind requireAuth), the :id of the path and the body's title.  *)
Req(pc, route, token, email, password, userId) ==
    [pc |-> pc, route |-> route, token |-> token, email |-> email,
     password |-> password, userId |-> userId, id |-> <<>>, body |-> <<>>]

IdleReq == Req("idle", "none", <<>>, <<>>, <<>>, <<>>)

(* The response a step sends, if it sends one: the route and cookie of the *)
(* request it answers, the status and the error text of the body,          *)
(* request.userId when the handler was reached (or the user of /me), if a  *)
(* protected handler ran, what was done to the session_token cookie, and   *)
(* the rows of the body.                                                   *)
Reply(route, token, status, error, userId, ran, cookie) ==
    [route |-> route, token |-> token, status |-> status, error |-> error,
     userId |-> userId, ran |-> ran, cookie |-> cookie, data |-> <<>>]

NoReply == Reply("none", <<>>, 0, <<>>, <<>>, FALSE, <<>>)

(* The history kept of the cache: the calls that were suspended at         *)
(* `await fetchFn()` while an invalidation of their key ran, and for each  *)
(* key the call whose result was stored there last.                        *)
NoTrail == [crossed |-> {}, writer |-> << >>]

(* ------------------------------ initial state ------------------------- *)
Init ==
    /\ cache = << >>
    /\ calls = [c \in Calls |-> IdleCall]
    /\ now = 0
    /\ nextSweep = SweepIntervalMs
    /\ ticks = 0
    /\ users = {}
    /\ sessions = << >>
    /\ reqs = [r \in Requests |-> IdleReq]
    /\ clock = 0
    /\ minted = [tokens |-> 0, days |-> 0]
    /\ sent = NoReply
    /\ tasks = << >>
    /\ trail = NoTrail

(* ------------------------------ operations ---------------------------- *)
(* getCachedOrFetch with single-flight sharing: a miss that finds another  *)
(* call suspended on the same key waits for it instead of calling fetchFn. *)
getCachedOrFetchSingleFlight(c, userId, endpoint, ttlMinutes) ==
    /\ calls[c].pc = "idle"
    /\ \A d \in Calls : d < c => calls[d].pc # "idle"
    /\ LET key == getCacheKey(userId, endpoint)
           cached == MapGet(cache, key)
           shared == \E d \in Calls :
                        calls[d].pc = "awaiting" /\ calls[d].key = key
       IN calls' = [calls EXCEPT ![c] =
              IF IsValid(cached, now)
              THEN Settled("returned", "hit", 0, cached[1].data, "none")
              ELSE Frame("awaiting", userId, endpoint, ttlMinutes, key,
                         IF cached = <<>> THEN "absent" ELSE "stale",
                         IF shared THEN 0 ELSE 1, "none", "none")]
    /\ UNCHANGED <<cache, now, nextSweep, ticks>>
    /\ UNCHANGED <<trail, httpVars>>

(* Lines 33-42: the lookup, the hit return, and the call of fetchFn.       *)
getCachedOrFetch(c, userId, endpoint, ttlMinutes) ==
    /\ calls[c].pc = "idle"
    /\ \A d \in Calls : d < c => calls[d].pc # "idle"
    /\ LET key == getCacheKey(userId, endpoint)
           cached == MapGet(cache, key)
       IN calls' = [calls EXCEPT ![c] =
              IF IsValid(cached, now)
              THEN Settled("returned", "hit", 0, cached[1].data, "none")
              ELSE Frame("awaiting", userId, endpoint, ttlMinutes, key,
                         IF cached = <<>> THEN "absent" ELSE "stale",
                         1, "none", "none")]
    /\ UNCHANGED <<cache, now, nextSweep, ticks>>
    /\ UNCHANGED <<trail, httpVars>>

(* Lines 42-50: fetchFn's promise fulfils with `data`.                     *)
fetchResolved(c, data) ==
    /\ calls[c].pc = "awaiting"
    /\ cache' = MapSet(cache, calls[c].key,
                       [data |-> data,
                        expiresAt |-> ExpiresAt(now, calls[c].ttlMinutes),
                        owner |-> calls[c].userId,
                        endpoint |-> calls[c].endpoint,
                        storedAt |-> now,
                        ttl |-> calls[c].ttlMinutes])
    /\ calls' = [calls EXCEPT ![c] = Settled("returned", calls[c].via, 1, data, "none")]
    /\ UNCHANGED <<now, nextSweep, ticks>>
    /\ UNCHANGED <<trail, httpVars>>

(* A rejection handler that evicts the key before rethrowing.              *)
fetchRejectedEvicts(c, e) ==
    /\ calls[c].pc = "awaiting"
    /\ cache' = MapDelete(cache, {calls[c].key})
    /\ calls' = [calls EXCEPT ![c] = Settled("thrown", calls[c].via, 1, "none", e)]
    /\ UNCHANGED <<now, nextSweep, ticks>>
    /\ UNCHANGED <<trail, httpVars>>

(* Line 42: fetchFn's promise rejects with `e`; the await rethrows it.     *)
fetchRejected(c, e) ==
    /\ calls[c].pc = "awaiting"
    /\ calls' = [calls EXCEPT ![c] = Settled("thrown", calls[c].via, 1, "none", e)]
    /\ UNCHANGED <<cache, now, nextSweep, ticks>>
    /\ UNCHANGED <<trail, httpVars>>

(* clear that deletes by the owner's prefix, as clearUser does.            *)
clearByOwnerPrefix(userId, endpoint) ==
    /\ cache' = MapDelete(cache,
                    {k \in DOMAIN cache : startsWith(k, userId \o <<":">>)})
    /\ UNCHANGED <<calls, now, nextSweep, ticks>>
    /\ UNCHANGED <<trail, httpVars>>

(* Lines 56-59.                                                            *)
clear(userId, endpoint) ==
    /\ cache' = MapDelete(cache, {getCacheKey(userId, endpoint)})
    /\ UNCHANGED <<calls, now, nextSweep, ticks>>
    /\ UNCHANGED <<trail, httpVars>>

(* Lines 64-70.                                                            *)
clearUser(userId) ==
    /\ cache' = MapDelete(cache,
                    {k \in DOMAIN cache : startsWith(k, userId \o <<":">>)})
    /\ UNCHANGED <<calls, now, nextSweep, ticks>>
    /\ UNCHANGED <<trail, httpVars>>

(* Lines 75-77.                                                            *)
clearAll ==
    /\ cache' = << >>
    /\ UNCHANGED <<calls, now, nextSweep, ticks>>
    /\ UNCHANGED <<trail, httpVars>>

(* Lines 82-89, run by the interval timer of lines 109-112 once it is due; *)
(* the timer is then due again one interval later.                         *)
cleanupExpired ==
    /\ now >= nextSweep
    /\ cache' = MapDelete(cache, {k \in DOMAIN cache : IsExpired(cache[k], now)})
    /\ nextSweep' = now + SweepIntervalMs
    /\ UNCHANGED <<calls, now, ticks>>
    /\ UNCHANGED <<trail, httpVars>>

(* The clock (Date.now()) advances.                                        *)
Tick(d) ==
    /\ ticks < MaxTicks
    /\ now' = now + d
    /\ ticks' = ticks + 1
    /\ UNCHANGED <<cache, calls, nextSweep>>
    /\ UNCHANGED <<trail, httpVars>>

Next ==
    \/ \E c \in Calls, p \in Pairs, t \in TtlChoices :
          getCachedOrFetch(c, p[1], p[2], t)
    \/ \E c \in Calls, v \in Values : fetchResolved(c, v)
    \/ \E c \in Calls, e \in Errors : fetchRejected(c, e)
    \/ \E u \in UserIds : clearUser(u)
    \/ \E p \in Pairs : clear(p[1], p[2])
    \/ clearAll
    \/ cleanupExpired
    \/ \E d \in TickSteps : Tick(d)

Spec == Init /\ [][Next]_vars

(* The same operations with the requests drawn from LivePairs.             *)
LiveNext ==
    \/ \E c \in Calls, p \in LivePairs, t \in TtlChoices :
          getCachedOrFetch(c, p[1], p[2], t)
    \/ \E c \in Calls, v \in Values : fetchResolved(c, v)
    \/ \E c \in Calls, e \in Errors : fetchRejected(c, e)
    \/ \E u \in UserIds : clearUser(u)
    \/ \E p \in LivePairs : clear(p[1], p[2])
    \/ clearAll
    \/ cleanupExpired
    \/ \E d \in TickSteps : Tick(d)

(* The interval timer of lines 109-112 runs its callback once it is due.   *)
LiveSpec == Init /\ [][LiveNext]_vars /\ WF_vars(cleanupExpired)


(* ====================== properties of the cache ======================= *)
MsPerMinute == 60000

Keys == { getCacheKey(p[1], p[2]) : p \in Pairs }

Present(k) == k \in DOMAIN cache

Live(k) == Present(k) /\ now < cache[k].expiresAt

Stale(k) == Present(k) /\ now >= cache[k].expiresAt

(* The entry stored for the pair (u, e) is in the cache.                   *)
HoldsFor(u, e) ==
    LET k == getCacheKey(u, e)
    IN Present(k) /\ cache[k].owner = u /\ cache[k].endpoint = e

(* The kinds of step a call c takes.                                       *)
Starts(c) == calls[c].pc = "idle" /\ calls'[c].pc # "idle"

Fulfils(c) == calls[c].pc = "awaiting" /\ calls'[c].pc = "returned"

Rejects(c) == calls[c].pc = "awaiting" /\ calls'[c].pc = "thrown"

(* A step that leaves the calls, the clock and the timer alone.            *)
CacheOnly == calls' = calls /\ now' = now /\ nextSweep' = nextSweep

(* C1, as stated: two calls of getCachedOrFetch(u, e, f, ttl) with ttl > 0 *)
(* made within ttl of each other, with no clear/clearUser/clearAll in      *)
(* between, invoke f exactly once in total. Stated of the first two calls  *)
(* while both are suspended and nothing has been stored yet: both were     *)
(* made in [0, now] and now is below ttl, so they are within ttl of each   *)
(* other; the cache has been empty all along, so a run without any         *)
(* invalidation between them leads to the same state.                      *)
C1_AsStated ==
    \A c1, c2 \in Calls :
        ( /\ c1 < c2
          /\ calls[c1].pc = "awaiting" /\ calls[c2].pc = "awaiting"
          /\ \A d \in Calls \ {c1, c2} : calls[d].pc = "idle"
          /\ cache = << >>
          /\ calls[c1].userId = calls[c2].userId
          /\ calls[c1].endpoint = calls[c2].endpoint
          /\ calls[c1].ttlMinutes = calls[c2].ttlMinutes
          /\ calls[c1].ttlMinutes > 0
          /\ now < calls[c1].ttlMinutes * MsPerMinute )
        => calls[c1].invoked + calls[c2].invoked = 1

(* C1, amended: once a call for (u, e) with ttl > 0 has missed, completed  *)
(* and stored its result at time t, a call for (u, e) that starts after    *)
(* that completion and before t + ttl, while that entry is still the one   *)
(* in the cache, does not invoke its producer and returns the value the    *)
(* first call stored and returned: the producer ran once in total.         *)
C1_HitWithinTtl ==
    [][ /\ \A c \in Calls : Starts(c) =>
             \A p \in Pairs, t \in TtlChoices :
                ( /\ getCachedOrFetch(c, p[1], p[2], t)
                  /\ HoldsFor(p[1], p[2])
                  /\ cache[getCacheKey(p[1], p[2])].ttl > 0
                  /\ now < cache[getCacheKey(p[1], p[2])].storedAt
                             + cache[getCacheKey(p[1], p[2])].ttl * MsPerMinute )
                => /\ calls'[c].pc = "returned"
                   /\ calls'[c].invoked = 0
                   /\ calls'[c].ret = cache[getCacheKey(p[1], p[2])].data
        /\ \A c \in Calls : Fulfils(c) =>
             \A v \in Values :
                fetchResolved(c, v)
                => /\ calls'[c].ret = v
                   /\ calls'[c].invoked = 1
                   /\ cache'[calls[c].key].data = v
                   /\ cache'[calls[c].key].storedAt = now
      ]_vars

(* The scenario of the spec: the first call stored [A] at time 0 with      *)
(* ttl = 1 minute, the second call 30 s later was a hit returning [A].     *)
C1_Witness ==
    /\ now = 30000
    /\ calls[1].pc = "returned" /\ calls[1].via = "absent"
    /\ calls[1].invoked = 1 /\ calls[1].ret = "A"
    /\ calls[2].pc = "returned" /\ calls[2].via = "hit"
    /\ calls[2].invoked = 0 /\ calls[2].ret = "A"
    /\ \E k \in DOMAIN cache :
          cache[k].storedAt = 0 /\ cache[k].ttl = 1 /\ cache[k].data = "A"

(* C2: a call made once ttl has elapsed since the entry under its key was  *)
(* stored invokes the producer again and returns the value that producer   *)
(* yields (which also replaces the cached one), not the cached value.      *)
C2_RefetchAfterTtl ==
    [][ /\ \A c \in Calls : Starts(c) =>
             \A p \in Pairs, t \in TtlChoices :
                ( /\ getCachedOrFetch(c, p[1], p[2], t)
                  /\ Present(getCacheKey(p[1], p[2]))
                  /\ now >= cache[getCacheKey(p[1], p[2])].storedAt
                              + cache[getCacheKey(p[1], p[2])].ttl * MsPerMinute )
                => /\ calls'[c].pc = "awaiting"
                   /\ calls'[c].via = "stale"
                   /\ calls'[c].invoked = 1
        /\ \A c \in Calls : (Fulfils(c) /\ calls[c].via = "stale") =>
             \A v \in Values :
                fetchResolved(c, v)
                => /\ calls'[c].ret = v
                   /\ calls'[c].invoked = 1
                   /\ cache'[calls[c].key].data = v
      ]_vars

(* A call found the entry [A] stale after ttl had elapsed, fetched again   *)
(* and returned the fresh [B].                                             *)
C2_Witness ==
    /\ calls[1].pc = "returned" /\ calls[1].via = "absent" /\ calls[1].ret = "A"
    /\ calls[2].pc = "returned" /\ calls[2].via = "stale"
    /\ calls[2].invoked = 1 /\ calls[2].ret = "B"
    /\ \E k \in DOMAIN cache : cache[k].data = "B" /\ cache[k].storedAt >= MsPerMinute

(* C3: getCachedOrFetch returns the cached value without invoking the      *)
(* producer if a live entry exists under the key; otherwise it invokes the *)
(* producer exactly once and, when the producer yields, stores the result  *)
(* under the key with expiry now + ttl, leaves every other key alone, and  *)
(* returns that result.                                                    *)
C3_Contract ==
    [][ /\ \A c \in Calls : Starts(c) =>
             \A p \in Pairs, t \in TtlChoices :
                getCachedOrFetch(c, p[1], p[2], t)
                => /\ cache' = cache
                   /\ IF Live(getCacheKey(p[1], p[2]))
                      THEN /\ calls'[c].pc = "returned"
                           /\ calls'[c].invoked = 0
                           /\ calls'[c].ret = cache[getCacheKey(p[1], p[2])].data
                      ELSE /\ calls'[c].pc = "awaiting"
                           /\ calls'[c].invoked = 1
                           /\ calls'[c].ttlMinutes = t
                           /\ calls'[c].key = getCacheKey(p[1], p[2])
        /\ \A c \in Calls : Fulfils(c) =>
             \A v \in Values :
                fetchResolved(c, v)
                => /\ calls'[c].invoked = calls[c].invoked
                   /\ calls'[c].ret = v
                   /\ DOMAIN cache' = DOMAIN cache \cup {calls[c].key}
                   /\ cache'[calls[c].key].data = v
                   /\ cache'[calls[c].key].expiresAt
                         = now + calls[c].ttlMinutes * MsPerMinute
                   /\ \A k \in DOMAIN cache \ {calls[c].key} : cache'[k] = cache[k]
      ]_vars

(* A miss with ttl = 1 minute at time 30 s stored its result with expiry   *)
(* 90 s, next to another entry.                                            *)
C3_Witness ==
    /\ \E c \in Calls :
          calls[c].pc = "returned" /\ calls[c].invoked = 1 /\ calls[c].ret = "B"
    /\ \E k \in DOMAIN cache :
          /\ cache[k].data = "B" /\ cache[k].storedAt = 30000
          /\ cache[k].expiresAt = 90000
    /\ Cardinality(DOMAIN cache) = 2

(* C4: clearUser(u) removes every entry whose owner is u and no entry      *)
(* whose owner differs from u, whatever characters the owner and endpoint  *)
(* strings hold (the ':' separator included).                              *)
C4_ClearUserByOwner ==
    [][ CacheOnly =>
          \A u \in UserIds :
             clearUser(u)
             => /\ DOMAIN cache' = {k \in DOMAIN cache : cache[k].owner # u}
                /\ \A k \in DOMAIN cache' : cache'[k] = cache[k]
      ]_vars

(* C5: when the producer fails, the failure reaches the caller unchanged   *)
(* and the cache is exactly as it was before the failure: no entry is      *)
(* created, overwritten or removed.                                        *)
C5_FailureLeavesCache ==
    [][ \A c \in Calls : Rejects(c) =>
          /\ cache' = cache
          /\ calls'[c].ret = "none"
          /\ \A d \in Calls \ {c} : calls'[d] = calls[d]
          /\ \A e \in Errors : fetchRejected(c, e) <=> calls'[c].err = e
      ]_vars

(* A call that found a stale entry failed, and the stale entry is still in *)
(* the cache.                                                              *)
C5_Witness ==
    \E c \in Calls :
        /\ calls[c].pc = "thrown" /\ calls[c].via = "stale"
        /\ calls[c].err = "E1"
        /\ \E k \in DOMAIN cache : Stale(k)

(* C6: calls for one key that are suspended together (each started while   *)
(* no live entry existed and before any of them stored a result) have each *)
(* invoked their own producer: N concurrent misses, N invocations.         *)
C6_NoSingleFlight ==
    \A k \in Keys :
        LET pending == {c \in Calls : calls[c].pc = "awaiting" /\ calls[c].key = k}
        IN /\ \A c \in pending : calls[c].invoked = 1
           /\ \A c \in pending : calls[c].via \in {"absent", "stale"}

(* Every call is suspended on the same key, each with its own invocation.  *)
C6_Witness ==
    /\ \A c \in Calls : calls[c].pc = "awaiting" /\ calls[c].invoked = 1
    /\ \A c, d \in Calls : calls[c].key = calls[d].key
    /\ cache = << >>

(* C7: a read of a stale entry is a miss and the fresh result replaces the *)
(* entry; the sweep removes every entry whose expiry has passed and no     *)
(* live one; the timer is always due within one interval, and once it is   *)
(* due the cache eventually holds no stale entry, with no read needed.     *)
C7_PassiveAndActiveExpiry ==
    /\ [][ /\ \A c \in Calls : Starts(c) =>
                \A p \in Pairs, t \in TtlChoices :
                   (getCachedOrFetch(c, p[1], p[2], t)
                       /\ Stale(getCacheKey(p[1], p[2])))
                   => calls'[c].pc = "awaiting" /\ calls'[c].invoked = 1
           /\ \A c \in Calls : (Fulfils(c) /\ Stale(calls[c].key)) =>
                \A v \in Values :
                   fetchResolved(c, v)
                   => /\ cache'[calls[c].key].data = v
                      /\ cache'[calls[c].key].storedAt = now
           /\ (nextSweep' # nextSweep /\ cleanupExpired)
                => /\ DOMAIN cache' = {k \in DOMAIN cache : now < cache[k].expiresAt}
                   /\ \A k \in DOMAIN cache' : cache'[k] = cache[k]
                   /\ nextSweep' = now + SweepIntervalMs
         ]_vars
    /\ [](nextSweep <= now + SweepIntervalMs)
    /\ (now >= nextSweep) ~> (\A k \in Keys : ~Stale(k))

(* The sweep ran at the first hour: no stale entry is left, and the entry  *)
(* stored at that very time with ttl = 1 minute was kept.                  *)
C7_Witness ==
    /\ now = SweepIntervalMs
    /\ nextSweep = 2 * SweepIntervalMs
    /\ \A c \in Calls : calls[c].pc = "returned" /\ calls[c].invoked = 1
    /\ Cardinality(DOMAIN cache) = 1
    /\ \E k \in DOMAIN cache : cache[k].storedAt = now /\ Live(k)

(* C8: an entry is usable iff now < its expiry: getCachedOrFetch returns   *)
(* the stored value exactly when now is strictly before the expiry and     *)
(* treats the entry as a miss when now equals or exceeds it; an entry      *)
(* stored with ttl = 0 is never usable.                                    *)
C8_UsableIffBeforeExpiry ==
    /\ [][ \A c \in Calls : Starts(c) =>
              \A p \in Pairs, t \in TtlChoices :
                 getCachedOrFetch(c, p[1], p[2], t)
                 => LET k == getCacheKey(p[1], p[2])
                    IN /\ (calls'[c].via = "hit")
                             <=> (Present(k) /\ now < cache[k].expiresAt)
                       /\ (calls'[c].via = "hit")
                             => /\ calls'[c].pc = "returned"
                                /\ calls'[c].ret = cache[k].data
                       /\ (calls'[c].via # "hit")
                             => /\ calls'[c].pc = "awaiting"
                                /\ calls'[c].ret = "none"
                       /\ (Present(k) /\ cache[k].ttl = 0)
                             => calls'[c].via = "stale"
         ]_vars
    /\ [](\A k \in DOMAIN cache : cache[k].ttl = 0 => ~Live(k))

(* A call made exactly at the expiry (entry stored at 0 with ttl = 1       *)
(* minute, call at 60 s) found the entry stale.                            *)
C8_Witness ==
    /\ now = MsPerMinute
    /\ calls[2].pc = "awaiting" /\ calls[2].via = "stale"
    /\ Present(calls[2].key)
    /\ cache[calls[2].key].storedAt = 0
    /\ cache[calls[2].key].expiresAt = now

(* The fetch of a call completes in this step and stores under key k.      *)
StoresUnder(k) ==
    \E c \in Calls :
        /\ Fulfils(c) /\ calls[c].key = k
        /\ \E v \in Values : fetchResolved(c, v)

Invalidates ==
    /\ CacheOnly
    /\ \/ \E p \in Pairs : clear(p[1], p[2])
       \/ \E u \in UserIds : clearUser(u)
       \/ clearAll

(* The key keeps its status: absent, live or stale.                        *)
SameStatus(k) == Present(k)' = Present(k) /\ Live(k)' = Live(k)

(* C9, as stated: the only transitions of an entry are absent -> live by a *)
(* fetch, live -> stale by the passage of time, and stale -> absent by the *)
(* sweep or an overwrite.                                                  *)
C9_AsStated ==
    [][ \A k \in DOMAIN cache \cup DOMAIN cache' :
          \/ SameStatus(k)
          \/ ~Present(k) /\ Live(k)' /\ StoresUnder(k)
          \/ Live(k) /\ Stale(k)' /\ now' > now
          \/ Stale(k) /\ ~Present(k)' /\ (cleanupExpired \/ StoresUnder(k))
      ]_vars

(* C9, amended: an entry becomes present only through a completed fetch,   *)
(* which leaves the key live if ttl > 0 and stale at once if ttl = 0,      *)
(* whatever was there before (absent, live or stale); a live entry that is *)
(* not overwritten becomes stale only through the passage of time; a       *)
(* present entry becomes absent only through clear, clearUser or clearAll  *)
(* (live or stale) or through the sweep (stale only); no other step        *)
(* changes whether the key is absent, live or stale.                       *)
C9_Lifecycle ==
    [][ \A k \in DOMAIN cache \cup DOMAIN cache' :
          \/ SameStatus(k)
          \/ /\ StoresUnder(k)
             /\ Present(k)'
             /\ Live(k)' <=> (cache'[k].ttl > 0)
          \/ /\ Live(k) /\ Stale(k)'
             /\ \E d \in TickSteps : Tick(d)
          \/ /\ Present(k) /\ ~Present(k)'
             /\ Invalidates
          \/ /\ Stale(k) /\ ~Present(k)'
             /\ cleanupExpired
      ]_vars

(* One entry is live while another, stored with ttl = 1 minute, has gone   *)
(* stale with time.                                                        *)
C9_Witness ==
    \E k1, k2 \in DOMAIN cache :
        /\ Live(k1)
        /\ Stale(k2) /\ cache[k2].ttl > 0
        /\ cache[k2].storedAt < cache[k1].storedAt

(* C10: clear(u, e) removes the entry under the key of (u, e) and leaves   *)
(* every other entry unchanged; clearAll leaves the cache empty; both can  *)
(* always be called and change nothing when nothing matches.               *)
C10_ClearAndClearAll ==
    /\ [][ CacheOnly =>
             /\ \A p \in Pairs :
                   clear(p[1], p[2])
                   => /\ DOMAIN cache' = DOMAIN cache \ {getCacheKey(p[1], p[2])}
                      /\ \A k \in DOMAIN cache' : cache'[k] = cache[k]
                      /\ (~Present(getCacheKey(p[1], p[2])) => cache' = cache)
             /\ clearAll => DOMAIN cache' = {}
         ]_vars
    /\ [](\A p \in Pairs : ENABLED clear(p[1], p[2]))
    /\ [](ENABLED clearAll)

(* Before any sweep was due, the stale entry that a suspended call had     *)
(* found under its key has been removed by an invalidation.                *)
C10_Witness ==
    \E c \in Calls :
        /\ calls[c].pc = "awaiting" /\ calls[c].via = "stale"
        /\ ~Present(calls[c].key)
        /\ now < SweepIntervalMs

(* ====================================================================== *)
(* Sessions: src/src/plugins/auth.ts, src/src/modules/auth/service.ts and  *)
(* src/src/modules/auth/routes.ts.  Every `await supabase...` is one step: *)
(* the store answers (a result, an error result, or a rejected promise)    *)
(* and the code runs on to its next await or to its response.              *)
(* ====================================================================== *)

(* /^[^\s@]+@[^\s@]+\.[^\s@]+$/ of routes.ts line 6.                       *)
emailRegexTest(e) ==
    \E i \in 2..Len(e) :
        /\ e[i] = "@"
        /\ \A j \in 1..Len(e) : j # i => e[j] \notin {"@", " "}
        /\ \E k \in (i + 2)..(Len(e) - 1) : e[k] = "."

(* bcrypt.hash and bcrypt.compare: compare accepts exactly the hashed text.*)
bcryptHash(password) == [bcrypt |-> password]

bcryptCompare(password, hash) == hash.bcrypt = password

(* What a store call resolves to: { data, error }.                         *)
Ok(data) == [data |-> data, error |-> <<>>]

Err(code, message) ==
    [data |-> <<>>, error |-> <<[code |-> code, message |-> message]>>]

(* .single(): one row, or the error PGRST116 when the filter matches none  *)
(* or several.                                                             *)
Single(rows) ==
    IF Cardinality(rows) = 1
    THEN Ok(<<CHOOSE x \in rows : TRUE>>)
    ELSE Err("PGRST116", "no single row")

(* The answer to a select ... single() under outcome o of the store.       *)
Select(rows, o) ==
    IF o = "ok" THEN Single(rows) ELSE Err("XX000", StoreMessage)

SessionRows(token) ==
    IF token \in DOMAIN sessions
    THEN {[token |-> token, user_id |-> sessions[token].user_id,
           expires_at |-> sessions[token].expires_at]}
    ELSE {}

UsersByEmail(email) == { u \in users : u.email = email }

UsersById(id) == { u \in users : u.id = id }

(* reply.status(..).send(..) ends the request.                             *)
Respond(r, route, token, status, error, userId, ran, cookie) ==
    /\ reqs' = [reqs EXCEPT ![r] = IdleReq]
    /\ sent' = Reply(route, token, status, error, userId, ran, cookie)

(* The request moves on to its next await.                                 *)
Await(r, frame) ==
    /\ reqs' = [reqs EXCEPT ![r] = frame]
    /\ sent' = NoReply

FreeSlot(r) ==
    /\ reqs[r].pc = "idle"
    /\ \A q \in Requests : q < r => reqs[q].pc # "idle"

Cookies == { <<>> } \cup { <<t>> : t \in 0..minted.tokens }

(* Line 24 of plugins/auth.ts and line 182 of service.ts.                  *)
NoSession(res) == res.error # <<>> \/ res.data = <<>>

(* Variants of the expiry test of line 30.                                 *)
SessionExpiredNever(session, t) == FALSE

SessionExpiredInverted(session, t) == session.expires_at > t

(* Lines 29-30 of plugins/auth.ts, 187-188 of service.ts:                  *)
(* `expiresAt < new Date()`.                                               *)
SessionExpired(session, t) == session.expires_at < t

(* ------------------------- plugins/auth.ts ---------------------------- *)
(* requireAuth that forgets to answer when no identity resolves.           *)
requireAuthResumeLenient(r, thrown, userId) ==
    Respond(r, reqs[r].route, reqs[r].token, 200, <<>>,
            IF thrown THEN <<>> ELSE userId, TRUE, <<>>)

(* Lines 66-77: requireAuth after `await verifySessionToken(token)`; a     *)
(* preHandler that has replied ends the request, otherwise the route's     *)
(* handler runs with request.userId set.                                   *)
requireAuthResume(r, thrown, userId) ==
    IF thrown
    THEN Respond(r, reqs[r].route, reqs[r].token, 401,
                 <<"Authentication failed">>, <<>>, FALSE, <<>>)
    ELSE IF userId = <<>>
    THEN Respond(r, reqs[r].route, reqs[r].token, 401,
                 <<"Invalid or expired session">>, <<>>, FALSE, <<>>)
    ELSE Respond(r, reqs[r].route, reqs[r].token, 200, <<>>, userId, TRUE, <<>>)

(* optionalAuth that answers like requireAuth.                             *)
optionalAuthResumeStrict(r, thrown, userId) ==
    IF thrown \/ userId = <<>>
    THEN Respond(r, reqs[r].route, reqs[r].token, 401,
                 <<"Invalid or expired session">>, <<>>, FALSE, <<>>)
    ELSE Respond(r, reqs[r].route, reqs[r].token, 200, <<>>, userId, TRUE, <<>>)

(* Lines 101-107: optionalAuth after the await; the handler always runs.   *)
optionalAuthResume(r, thrown, userId) ==
    Respond(r, reqs[r].route, reqs[r].token, 200, <<>>,
            IF thrown THEN <<>> ELSE userId, TRUE, <<>>)

Resume(r, thrown, userId) ==
    IF reqs[r].route = "strict"
    THEN requireAuthResume(r, thrown, userId)
    ELSE optionalAuthResume(r, thrown, userId)

(* Lines 49-66: a request to a route with preHandler requireAuth arrives.  *)
requireAuth(r, cookie) ==
    /\ FreeSlot(r)
    /\ IF cookie = <<>>
       THEN Respond(r, "strict", cookie, 401, <<"Not authenticated">>,
                    <<>>, FALSE, <<>>)
       ELSE Await(r, Req("lookup", "strict", cookie, <<>>, <<>>, <<>>))
    /\ UNCHANGED <<users, sessions, clock, minted>>
    /\ UNCHANGED <<tasks, cacheVars>>

(* Lines 85-102: a request to a route with preHandler optionalAuth.        *)
optionalAuth(r, cookie) ==
    /\ FreeSlot(r)
    /\ IF cookie = <<>>
       THEN Respond(r, "permissive", cookie, 200, <<>>, <<>>, TRUE, <<>>)
       ELSE Await(r, Req("lookup", "permissive", cookie, <<>>, <<>>, <<>>))
    /\ UNCHANGED <<users, sessions, clock, minted>>
    /\ UNCHANGED <<tasks, cacheVars>>

(* Lines 17-41: the select of verifySessionToken answers.                  *)
verifySessionToken(r, o) ==
    /\ reqs[r].pc = "lookup"
    /\ reqs[r].route \in {"strict", "permissive"}
    /\ LET res == Select(SessionRows(reqs[r].token[1]), o)
       IN IF o = "throw" THEN Resume(r, TRUE, <<>>)
          ELSE IF NoSession(res) THEN Resume(r, FALSE, <<>>)
          ELSE IF SessionExpired(res.data[1], clock)
          THEN Await(r, [reqs[r] EXCEPT !.pc = "deleting"])
          ELSE Resume(r, FALSE, <<res.data[1].user_id>>)
    /\ UNCHANGED <<users, sessions, clock, minted>>
    /\ UNCHANGED <<tasks, cacheVars>>

(* A deletion whose failure lets the session through.                      *)
verifySessionTokenDeleteOrAccept(r, o) ==
    /\ reqs[r].pc = "deleting"
    /\ reqs[r].route \in {"strict", "permissive"}
    /\ LET t == reqs[r].token[1]
       IN /\ sessions' = IF o = "ok" THEN MapDelete(sessions, {t}) ELSE sessions
          /\ IF o = "ok" \/ t \notin DOMAIN sessions
             THEN Resume(r, FALSE, <<>>)
             ELSE Resume(r, FALSE, <<sessions[t].user_id>>)
    /\ UNCHANGED <<users, clock, minted>>
    /\ UNCHANGED <<tasks, cacheVars>>

(* Lines 31-37: the delete of the expired session answers; its error       *)
(* result is not read, a rejection leaves verifySessionToken by `await`.   *)
verifySessionTokenDelete(r, o) ==
    /\ reqs[r].pc = "deleting"
    /\ reqs[r].route \in {"strict", "permissive"}
    /\ sessions' = IF o = "ok"
                   THEN MapDelete(sessions, {reqs[r].token[1]})
                   ELSE sessions
    /\ Resume(r, o = "throw", <<>>)
    /\ UNCHANGED <<users, clock, minted>>
    /\ UNCHANGED <<tasks, cacheVars>>

(* ------------------ modules/auth: routes.ts and service.ts ------------ *)
(* A rejection that leaves a handler without try/catch reaches the         *)
(* framework's error handler: status 500 with the error's message.         *)
Uncaught(r, message) ==
    Respond(r, reqs[r].route, reqs[r].token, 500,
            <<"Internal Server Error", message>>, <<>>, FALSE, <<>>)

(* routes.ts lines 177-184: GET /me arrives.                               *)
me(r, cookie) ==
    /\ FreeSlot(r)
    /\ IF cookie = <<>>
       THEN Respond(r, "me", cookie, 401, <<"Not authenticated">>,
                    <<>>, FALSE, <<>>)
       ELSE Await(r, Req("lookup", "me", cookie, <<>>, <<>>, <<>>))
    /\ UNCHANGED <<users, sessions, clock, minted>>
    /\ UNCHANGED <<tasks, cacheVars>>

(* service.ts lines 175-196 (and routes.ts 185-187): the select of         *)
(* verifySession answers.                                                  *)
verifySession(r, o) ==
    /\ reqs[r].pc = "lookup"
    /\ reqs[r].route = "me"
    /\ LET res == Select(SessionRows(reqs[r].token[1]), o)
       IN IF o = "throw" THEN Uncaught(r, StoreMessage)
          ELSE IF NoSession(res)
          THEN Respond(r, "me", reqs[r].token, 401,
                       <<"Invalid or expired session">>, <<>>, FALSE, <<>>)
          ELSE IF SessionExpired(res.data[1], clock)
          THEN Await(r, [reqs[r] EXCEPT !.pc = "deleting"])
          ELSE Await(r, [reqs[r] EXCEPT !.pc = "user",
                                        !.userId = <<res.data[1].user_id>>])
    /\ UNCHANGED <<users, sessions, clock, minted>>
    /\ UNCHANGED <<tasks, cacheVars>>

(* service.ts lines 190-195: the delete of the expired session answers.    *)
verifySessionDelete(r, o) ==
    /\ reqs[r].pc = "deleting"
    /\ reqs[r].route = "me"
    /\ sessions' = IF o = "ok"
                   THEN MapDelete(sessions, {reqs[r].token[1]})
                   ELSE sessions
    /\ IF o = "throw" THEN Uncaught(r, StoreMessage)
       ELSE Respond(r, "me", reqs[r].token, 401,
                    <<"Invalid or expired session">>, <<>>, FALSE, <<>>)
    /\ UNCHANGED <<users, clock, minted>>
    /\ UNCHANGED <<tasks, cacheVars>>

(* service.ts lines 199-210 and routes.ts 185-189: the select of the user. *)
verifySessionUser(r, o) ==
    /\ reqs[r].pc = "user"
    /\ LET res == Select(UsersById(reqs[r].userId[1]), o)
       IN IF o = "throw" THEN Uncaught(r, StoreMessage)
          ELSE IF res.error # <<>> \/ res.data = <<>>
          THEN Respond(r, "me", reqs[r].token, 401,
                       <<"Invalid or expired session">>, <<>>, FALSE, <<>>)
          ELSE Respond(r, "me", reqs[r].token, 200, <<>>,
                       <<res.data[1].id>>, FALSE, <<>>)
    /\ UNCHANGED <<users, sessions, clock, minted>>
    /\ UNCHANGED <<tasks, cacheVars>>

(* routes.ts lines 43-71: POST /signup arrives and its body is validated.  *)
signupRoute(r, email, name, password) ==
    /\ FreeSlot(r)
    /\ IF email = <<>> \/ name = <<>> \/ password = <<>>
       THEN Respond(r, "signup", <<>>, 400,
                    <<"Email, name and password are required">>,
                    <<>>, FALSE, <<>>)
       ELSE IF ~emailRegexTest(email)
       THEN Respond(r, "signup", <<>>, 400, <<"Invalid email format">>,
                    <<>>, FALSE, <<>>)
       ELSE IF Len(password) < MinPasswordLength
       THEN Respond(r, "signup", <<>>, 400,
                    <<"Password must be at least 8 characters">>,
                    <<>>, FALSE, <<>>)
       ELSE Await(r, Req("existing", "signup", <<>>, email, password, <<>>))
    /\ UNCHANGED <<users, sessions, clock, minted>>
    /\ UNCHANGED <<tasks, cacheVars>>

(* service.ts lines 62-75 (routes.ts 91-94): the select of an existing     *)
(* user answers; only its data is read.                                    *)
signupExisting(r, o) ==
    /\ reqs[r].pc = "existing"
    /\ LET res == Select(UsersByEmail(reqs[r].email), o)
       IN IF o = "throw"
          THEN Respond(r, "signup", <<>>, 400, <<StoreMessage>>,
                       <<>>, FALSE, <<>>)
          ELSE IF res.data # <<>>
          THEN Respond(r, "signup", <<>>, 400, <<"Invalid email or password">>,
                       <<>>, FALSE, <<>>)
          ELSE Await(r, [reqs[r] EXCEPT !.pc = "insert"])
    /\ UNCHANGED <<users, sessions, clock, minted>>
    /\ UNCHANGED <<tasks, cacheVars>>

(* service.ts lines 78-95 (routes.ts 91-94): the insert of the user.       *)
signup(r, o) ==
    /\ reqs[r].pc = "insert"
    /\ o = "ok" => Cardinality(users) < MaxUsers
    /\ IF o = "ok"
       THEN /\ users' = users \cup {[id |-> Cardinality(users) + 1,
                                     email |-> reqs[r].email,
                                     password_hash |-> bcryptHash(reqs[r].password)]}
            /\ Await(r, [reqs[r] EXCEPT !.pc = "session",
                                        !.userId = <<Cardinality(users) + 1>>])
       ELSE /\ Respond(r, "signup", <<>>, 400,
                       IF o = "error"
                       THEN <<"Failed to create user: ", StoreMessage>>
                       ELSE <<StoreMessage>>,
                       <<>>, FALSE, <<>>)
            /\ UNCHANGED users
    /\ UNCHANGED <<sessions, clock, minted>>
    /\ UNCHANGED <<tasks, cacheVars>>

(* routes.ts lines 98-118: POST /signin arrives.                           *)
signinRoute(r, email, password) ==
    /\ FreeSlot(r)
    /\ IF email = <<>> \/ password = <<>>
       THEN Respond(r, "signin", <<>>, 400,
                    <<"Email and password are required">>, <<>>, FALSE, <<>>)
       ELSE IF ~emailRegexTest(email)
       THEN Respond(r, "signin", <<>>, 400, <<"Invalid email format">>,
                    <<>>, FALSE, <<>>)
       ELSE Await(r, Req("find", "signin", <<>>, email, password, <<>>))
    /\ UNCHANGED <<users, sessions, clock, minted>>
    /\ UNCHANGED <<tasks, cacheVars>>

(* service.ts lines 122-140 (routes.ts 138-141): the select of the user    *)
(* answers and the password is compared.                                   *)
signin(r, o) ==
    /\ reqs[r].pc = "find"
    /\ LET res == Select(UsersByEmail(reqs[r].email), o)
       IN IF o = "throw"
          THEN Respond(r, "signin", <<>>, 401, <<StoreMessage>>,
                       <<>>, FALSE, <<>>)
          ELSE IF res.error # <<>> \/ res.data = <<>>
          THEN Respond(r, "signin", <<>>, 401, <<"Invalid email or password">>,
                       <<>>, FALSE, <<>>)
          ELSE IF ~bcryptCompare(reqs[r].password, res.data[1].password_hash)
          THEN Respond(r, "signin", <<>>, 401, <<"Invalid email or password">>,
                       <<>>, FALSE, <<>>)
          ELSE Await(r, [reqs[r] EXCEPT !.pc = "session",
                                        !.userId = <<res.data[1].id>>])
    /\ UNCHANGED <<users, sessions, clock, minted>>
    /\ UNCHANGED <<tasks, cacheVars>>

(* A createSession that replaces the sessions the user already holds.      *)
createSessionReplacing(r, o) ==
    /\ reqs[r].pc = "session"
    /\ o = "ok" => minted.tokens < MaxTokens
    /\ IF o = "ok"
       THEN /\ sessions' = MapSet(
                  MapDelete(sessions, {t \in DOMAIN sessions :
                                sessions[t].user_id = reqs[r].userId[1]}),
                  minted.tokens + 1,
                  [user_id |-> reqs[r].userId[1],
                   expires_at |-> clock + SessionDays])
            /\ minted' = [minted EXCEPT !.tokens = @ + 1]
            /\ Respond(r, reqs[r].route, reqs[r].token,
                       IF reqs[r].route = "signup" THEN 201 ELSE 200,
                       <<>>, reqs[r].userId, FALSE, <<"set", minted.tokens + 1>>)
       ELSE /\ Respond(r, reqs[r].route, reqs[r].token,
                       IF reqs[r].route = "signup" THEN 400 ELSE 401,
                       IF o = "error"
                       THEN <<"Failed to create session: ", StoreMessage>>
                       ELSE <<StoreMessage>>,
                       <<>>, FALSE, <<>>)
            /\ UNCHANGED <<sessions, minted>>
    /\ UNCHANGED <<users, clock>>
    /\ UNCHANGED <<tasks, cacheVars>>

(* A createSession whose token is not fresh: it reuses the first token.    *)
createSessionShared(r, o) ==
    /\ reqs[r].pc = "session"
    /\ o = "ok" => minted.tokens < MaxTokens
    /\ IF o = "ok"
       THEN /\ sessions' = MapSet(sessions, 1,
                                  [user_id |-> reqs[r].userId[1],
                                   expires_at |-> clock + SessionDays])
            /\ minted' = [minted EXCEPT !.tokens = @ + 1]
            /\ Respond(r, reqs[r].route, reqs[r].token,
                       IF reqs[r].route = "signup" THEN 201 ELSE 200,
                       <<>>, reqs[r].userId, FALSE, <<"set", 1>>)
       ELSE /\ Respond(r, reqs[r].route, reqs[r].token,
                       IF reqs[r].route = "signup" THEN 400 ELSE 401,
                       IF o = "error"
                       THEN <<"Failed to create session: ", StoreMessage>>
                       ELSE <<StoreMessage>>,
                       <<>>, FALSE, <<>>)
            /\ UNCHANGED <<sessions, minted>>
    /\ UNCHANGED <<users, clock>>
    /\ UNCHANGED <<tasks, cacheVars>>

(* service.ts lines 16-45, then routes.ts 73-94 or 120-141: the insert of  *)
(* the session answers; the token is a fresh random string.                *)
createSession(r, o) ==
    /\ reqs[r].pc = "session"
    /\ o = "ok" => minted.tokens < MaxTokens
    /\ IF o = "ok"
       THEN /\ sessions' = MapSet(sessions, minted.tokens + 1,
                                  [user_id |-> reqs[r].userId[1],
                                   expires_at |-> clock + SessionDays])
            /\ minted' = [minted EXCEPT !.tokens = @ + 1]
            /\ Respond(r, reqs[r].route, reqs[r].token,
                       IF reqs[r].route = "signup" THEN 201 ELSE 200,
                       <<>>, reqs[r].userId, FALSE, <<"set", minted.tokens + 1>>)
       ELSE /\ Respond(r, reqs[r].route, reqs[r].token,
                       IF reqs[r].route = "signup" THEN 400 ELSE 401,
                       IF o = "error"
                       THEN <<"Failed to create session: ", StoreMessage>>
                       ELSE <<StoreMessage>>,
                       <<>>, FALSE, <<>>)
            /\ UNCHANGED <<sessions, minted>>
    /\ UNCHANGED <<users, clock>>
    /\ UNCHANGED <<tasks, cacheVars>>

(* routes.ts lines 145-151 and 153-169: POST /signout arrives.             *)
signoutRoute(r, cookie) ==
    /\ FreeSlot(r)
    /\ IF cookie = <<>>
       THEN Respond(r, "signout", cookie, 200, <<>>, <<>>, FALSE, <<"clear">>)
       ELSE Await(r, Req("delete", "signout", cookie, <<>>, <<>>, <<>>))
    /\ UNCHANGED <<users, sessions, clock, minted>>
    /\ UNCHANGED <<tasks, cacheVars>>

(* A signout that ends every session of the token's user.                  *)
signoutEverywhere(r, o) ==
    /\ reqs[r].pc = "delete"
    /\ sessions' = IF o = "ok" /\ reqs[r].token[1] \in DOMAIN sessions
                   THEN MapDelete(sessions,
                           {t \in DOMAIN sessions :
                               sessions[t].user_id
                                  = sessions[reqs[r].token[1]].user_id})
                   ELSE sessions
    /\ IF o = "ok"
       THEN Respond(r, "signout", reqs[r].token, 200, <<>>, <<>>, FALSE,
                    <<"clear">>)
       ELSE Respond(r, "signout", reqs[r].token, 400,
                    IF o = "error" THEN <<"Failed to sign out: ", StoreMessage>>
                                   ELSE <<StoreMessage>>,
                    <<>>, FALSE, <<>>)
    /\ UNCHANGED <<users, clock, minted>>
    /\ UNCHANGED <<tasks, cacheVars>>

(* service.ts lines 157-169, then routes.ts 153-173: the delete answers.   *)
signout(r, o) ==
    /\ reqs[r].pc = "delete"
    /\ sessions' = IF o = "ok"
                   THEN MapDelete(sessions, {reqs[r].token[1]})
                   ELSE sessions
    /\ IF o = "ok"
       THEN Respond(r, "signout", reqs[r].token, 200, <<>>, <<>>, FALSE,
                    <<"clear">>)
       ELSE Respond(r, "signout", reqs[r].token, 400,
                    IF o = "error" THEN <<"Failed to sign out: ", StoreMessage>>
                                   ELSE <<StoreMessage>>,
                    <<>>, FALSE, <<>>)
    /\ UNCHANGED <<users, clock, minted>>
    /\ UNCHANGED <<tasks, cacheVars>>

(* The wall clock (new Date()) advances, in days.                          *)
Day(d) ==
    /\ minted.days < MaxDays
    /\ clock' = clock + d
    /\ minted' = [minted EXCEPT !.days = @ + 1]
    /\ sent' = NoReply
    /\ UNCHANGED <<users, sessions, reqs>>
    /\ UNCHANGED <<tasks, cacheVars>>

(* Every auth route, one request at a time, from an empty store.          *)
Serial == { 1 }

AuthNext ==
    \/ \E r \in Serial, c \in Cookies : requireAuth(r, c)
    \/ \E r \in Serial, c \in Cookies : optionalAuth(r, c)
    \/ \E r \in Serial, o \in Outcomes : verifySessionToken(r, o)
    \/ \E r \in Serial, o \in Outcomes : verifySessionTokenDelete(r, o)
    \/ \E r \in Serial, c \in Cookies : me(r, c)
    \/ \E r \in Serial, o \in Outcomes : verifySession(r, o)
    \/ \E r \in Serial, o \in Outcomes : verifySessionDelete(r, o)
    \/ \E r \in Serial, o \in Outcomes : verifySessionUser(r, o)
    \/ \E r \in Serial, e \in Emails, n \in Names, p \in Passwords :
          signupRoute(r, e, n, p)
    \/ \E r \in Serial, o \in Outcomes : signupExisting(r, o)
    \/ \E r \in Serial, o \in Outcomes : signup(r, o)
    \/ \E r \in Serial, e \in Emails, p \in Passwords : signinRoute(r, e, p)
    \/ \E r \in Serial, o \in Outcomes : signin(r, o)
    \/ \E r \in Serial, o \in Outcomes : createSession(r, o)
    \/ \E r \in Serial, c \in Cookies : signoutRoute(r, c)
    \/ \E r \in Serial, o \in Outcomes : signout(r, o)
    \/ \E d \in DaySteps : Day(d)

AuthSpec == Init /\ [][AuthNext]_vars

(* The preHandlers under concurrent requests: two users are registered,    *)
(* they open sessions by signing in with their credentials, and requests   *)
(* to routes behind requireAuth and optionalAuth interleave at their       *)
(* awaits, with every answer of the store.                                 *)
Registered ==
    { [id |-> 1, email |-> <<"a", "@", "b", ".", "c">>,
       password_hash |-> bcryptHash(<<"p", "a", "s", "s", "w", "o", "r", "d">>)],
      [id |-> 2, email |-> <<"d", "@", "b", ".", "c">>,
       password_hash |-> bcryptHash(<<"p", "a", "s", "s", "w", "o", "r", "d">>)] }

ValidateInit ==
    /\ cache = << >>
    /\ calls = [c \in Calls |-> IdleCall]
    /\ now = 0
    /\ nextSweep = SweepIntervalMs
    /\ ticks = 0
    /\ users = Registered
    /\ sessions = << >>
    /\ reqs = [r \in Requests |-> IdleReq]
    /\ clock = 0
    /\ minted = [tokens |-> 0, days |-> 0]
    /\ sent = NoReply
    /\ tasks = << >>
    /\ trail = NoTrail

ValidateNext ==
    \/ \E r \in Requests, c \in Cookies : requireAuth(r, c)
    \/ \E r \in Requests, c \in Cookies : optionalAuth(r, c)
    \/ \E r \in Requests, o \in Outcomes : verifySessionToken(r, o)
    \/ \E r \in Requests, o \in Outcomes : verifySessionTokenDelete(r, o)
    \/ \E r \in Requests, u \in Registered :
          signinRoute(r, u.email, u.password_hash.bcrypt)
    \/ \E r \in Requests : signin(r, "ok")
    \/ \E r \in Requests : createSession(r, "ok")
    \/ \E d \in DaySteps : Day(d)

ValidateSpec == ValidateInit /\ [][ValidateNext]_vars

(* ------------------------ session properties -------------------------- *)
Validating == { "strict", "permissive" }

(* Request r is suspended with cookie token t.                             *)
Carries(r, t) == reqs[r].token = <<t>>

(* The step answers request r.                                             *)
Answers(r) == reqs[r].pc # "idle" /\ reqs'[r].pc = "idle"

(* The answer carries no identity: in strict mode a 401 without the        *)
(* handler, in permissive mode the handler with a null request.userId.     *)
NoIdentity(route) ==
    /\ sent'.userId = <<>>
    /\ route = "strict" => sent'.status = 401 /\ ~sent'.ran
    /\ route = "permissive" => sent'.status = 200 /\ sent'.ran

(* C11: a validation whose token is not in the session store yields no     *)
(* identity (401 from requireAuth, request.userId null) and leaves the     *)
(* store as it was, whatever the store answers.                            *)
C11_UnknownTokenRejected ==
    [][\A r \in Requests :
          (reqs[r].pc = "lookup" /\ reqs[r].route \in Validating
             /\ reqs[r].token[1] \notin DOMAIN sessions /\ reqs'[r] # reqs[r])
          => /\ Answers(r)
             /\ NoIdentity(reqs[r].route)
             /\ sessions' = sessions]_vars

(* A forged token was refused by requireAuth while sessions are stored.    *)
C11_Witness ==
    /\ sent.route = "strict"
    /\ sent.token = <<0>>
    /\ sent.status = 401
    /\ sent.error = <<"Invalid or expired session">>
    /\ sent.userId = <<>>
    /\ DOMAIN sessions # {}

(* The session of r's cookie is stored and its expiry is before the clock. *)
HoldsExpired(r) ==
    /\ reqs[r].token # <<>>
    /\ reqs[r].token[1] \in DOMAIN sessions
    /\ sessions[reqs[r].token[1]].expires_at < clock

(* The session of r's cookie is stored and its expiry is after the clock.  *)
HoldsUnexpired(r) ==
    /\ reqs[r].token # <<>>
    /\ reqs[r].token[1] \in DOMAIN sessions
    /\ sessions[reqs[r].token[1]].expires_at > clock

(* C12 as stated: a validation that finds its session's expiry in the past *)
(* yields no identity and the record is gone from the store afterwards.    *)
C12_AsStated ==
    [][\A r \in Requests :
          (reqs[r].pc = "deleting" /\ reqs[r].route \in Validating /\ Answers(r))
          => /\ NoIdentity(reqs[r].route)
             /\ reqs[r].token[1] \notin DOMAIN sessions']_vars

(* C12: a validation of a session whose expiry is in the past never yields *)
(* an identity; it goes on to delete the record, which is gone when the    *)
(* store performs the deletion and is left as it was when the deletion     *)
(* fails; no other record changes.                                         *)
C12_ExpiredRejected ==
    [][\A r \in Requests :
          /\ (reqs[r].pc = "lookup" /\ reqs[r].route \in Validating
                /\ HoldsExpired(r) /\ reqs'[r] # reqs[r])
             => /\ sessions' = sessions
                /\ verifySessionToken(r, "ok") => reqs'[r].pc = "deleting"
                /\ Answers(r) => NoIdentity(reqs[r].route)
          /\ (reqs[r].pc = "deleting" /\ reqs[r].route \in Validating
                /\ reqs'[r] # reqs[r])
             => /\ Answers(r)
                /\ NoIdentity(reqs[r].route)
                /\ verifySessionTokenDelete(r, "ok")
                      => sessions' = MapDelete(sessions, {reqs[r].token[1]})
                /\ ~verifySessionTokenDelete(r, "ok") => sessions' = sessions]_vars

(* An expired session was looked up with a second session stored, its      *)
(* deletion was performed, and requireAuth answered 401.                   *)
C12_Witness ==
    /\ sent.route = "strict"
    /\ sent.status = 401
    /\ sent.token # <<>>
    /\ sent.token[1] \in 1..minted.tokens
    /\ sent.token[1] \notin DOMAIN sessions
    /\ DOMAIN sessions # {}
    /\ clock > SessionDays

(* C13: a validation that the store answers and whose session's expiry is  *)
(* in the future yields the user the session belongs to (the handler runs  *)
(* with request.userId set to it) and changes no session record.           *)
C13_ValidSessionAccepted ==
    [][\A r \in Requests :
          (reqs[r].pc = "lookup" /\ reqs[r].route \in Validating
             /\ HoldsUnexpired(r) /\ reqs'[r] # reqs[r])
          => /\ sessions' = sessions
             /\ Answers(r)
             /\ verifySessionToken(r, "ok")
                   => /\ sent'.userId = <<sessions[reqs[r].token[1]].user_id>>
                      /\ sent'.status = 200
                      /\ sent'.ran]_vars

(* requireAuth let user 2 through on the second session while the first    *)
(* session, of user 1, is stored.                                          *)
C13_Witness ==
    /\ sent.route = "strict"
    /\ sent.ran
    /\ sent.token = <<2>>
    /\ sent.userId = <<2>>
    /\ 1 \in DOMAIN sessions
    /\ 2 \in DOMAIN sessions
    /\ sessions[1].user_id = 1
    /\ sessions[2].expires_at > clock

(* C14: validation accepts a stored session exactly when the clock is      *)
(* strictly before expires_at, and rejects it as expired when the clock    *)
(* equals or is after expires_at.                                          *)
C14_ValidIffBeforeExpiry ==
    [][\A r \in Requests :
          (reqs[r].pc = "lookup" /\ reqs[r].route \in Validating
             /\ reqs[r].token[1] \in DOMAIN sessions
             /\ verifySessionToken(r, "ok"))
          => IF clock < sessions[reqs[r].token[1]].expires_at
             THEN sent'.userId = <<sessions[reqs[r].token[1]].user_id>>
             ELSE reqs'[r].pc = "deleting"]_vars

(* The step is the lookup of r's session, the store answers it, and the    *)
(* session is not expired.                                                 *)
Validates(r) ==
    /\ reqs[r].pc = "lookup"
    /\ reqs[r].token[1] \in DOMAIN sessions
    /\ ~(sessions[reqs[r].token[1]].expires_at < clock)
    /\ verifySessionToken(r, "ok")

(* C15: behind requireAuth the handler runs only in the step in which the  *)
(* request's own token validated, with request.userId the session's user;  *)
(* every other answer (no cookie, unknown or expired token, failing store) *)
(* is a 401 with request.userId null and the handler not run.  Behind      *)
(* optionalAuth the handler always runs, no error status is sent, and      *)
(* request.userId is the validated user or null.                           *)
C15_StrictAndPermissive ==
    /\ [](sent.route \in Validating /\ sent.token = <<>>
            => /\ sent.userId = <<>>
               /\ sent.route = "strict" => sent.status = 401 /\ ~sent.ran
               /\ sent.route = "permissive" => sent.status = 200 /\ sent.ran)
    /\ [][\A r \in Requests :
            (reqs[r].route \in Validating /\ Answers(r))
            => IF Validates(r)
               THEN /\ sent'.userId = <<sessions[reqs[r].token[1]].user_id>>
                    /\ sent'.status = 200
                    /\ sent'.ran
               ELSE NoIdentity(reqs[r].route)]_vars

(* optionalAuth ran the handler for an unknown token with a null           *)
(* request.userId while another request is suspended behind requireAuth.   *)
C15_Witness ==
    /\ sent.route = "permissive"
    /\ sent.token = <<0>>
    /\ sent.status = 200
    /\ sent.ran
    /\ sent.userId = <<>>
    /\ \E r \in Requests : reqs[r].route = "strict" /\ reqs[r].pc = "lookup"

(* C17: when the deletion of an expired session fails (an error result or  *)
(* a rejected promise), validation still yields no identity, and the       *)
(* session record stays as it was.                                         *)
C17_DeletionBestEffort ==
    [][\A r \in Requests :
          (reqs[r].pc = "deleting" /\ reqs[r].route \in Validating
             /\ (verifySessionTokenDelete(r, "error")
                   \/ verifySessionTokenDelete(r, "throw")))
          => /\ Answers(r)
             /\ NoIdentity(reqs[r].route)
             /\ sessions' = sessions]_vars

(* requireAuth answered 401 for a token whose expired record is still      *)
(* stored, while a second validation of that token waits for its delete.   *)
C17_Witness ==
    /\ sent.route = "strict"
    /\ sent.status = 401
    /\ sent.token # <<>>
    /\ sent.token[1] \in DOMAIN sessions
    /\ sessions[sent.token[1]].expires_at < clock
    /\ \E r \in Requests : reqs[r].pc = "deleting" /\ reqs[r].token = sent.token

(* The step is a session or user lookup of request r that fails.           *)
LookupFails(r) ==
    \E o \in {"error", "throw"} :
        \/ verifySessionToken(r, o)
        \/ verifySession(r, o)
        \/ verifySessionUser(r, o)

(* C16: a lookup that fails while a session is validated (an error result  *)
(* or a rejected promise) is answered as not authenticated, with no        *)
(* identity and never with a 5xx status: a 401 from requireAuth and from   *)
(* GET /me, and a null request.userId behind optionalAuth.                 *)
C16_LookupErrorsFailClosed ==
    [][\A r \in Requests :
          (reqs[r].pc \in {"lookup", "user"} /\ LookupFails(r))
          => /\ sent'.userId = <<>>
             /\ sent'.status < 500
             /\ reqs[r].route # "permissive" => sent'.status = 401]_vars

(* C18: a session record appears only in the step that answers a signup    *)
(* with 201 or a signin with 200, carrying the new token in the cookie and *)
(* owned by the user of that request, and every such answer stores one; a  *)
(* record disappears only in the delete of a signout carrying its token or *)
(* of a validation that found it expired; a record that stays keeps its    *)
(* owner and its expiry.                                                   *)
C18_SessionLifecycle ==
    [][/\ \A t \in DOMAIN sessions \cap DOMAIN sessions' :
             sessions'[t] = sessions[t]
       /\ \A t \in DOMAIN sessions' \ DOMAIN sessions :
             /\ sent'.route \in {"signup", "signin"}
             /\ sent'.status = (IF sent'.route = "signup" THEN 201 ELSE 200)
             /\ sent'.cookie = <<"set", t>>
             /\ sent'.userId = <<sessions'[t].user_id>>
             /\ sessions'[t].expires_at = clock + SessionDays
       /\ (sent'.route \in {"signup", "signin"} /\ sent'.status \in {200, 201})
          => DOMAIN sessions' # DOMAIN sessions
       /\ \A t \in DOMAIN sessions \ DOMAIN sessions' :
             \E r \in Requests :
                /\ Carries(r, t)
                /\ Answers(r)
                /\ \/ reqs[r].route = "signout" /\ sent'.status = 200
                   \/ reqs[r].pc = "deleting" /\ sessions[t].expires_at < clock]_vars

(* A signout removed its session while a session opened later is stored.   *)
C18_Witness ==
    /\ sent.route = "signout"
    /\ sent.status = 200
    /\ sent.token = <<1>>
    /\ 1 \notin DOMAIN sessions
    /\ 2 \in DOMAIN sessions

(* ====================================================================== *)
(* Tasks: src/src/modules/tasks/routes.ts (routes and TasksService) and    *)
(* src/src/modules/tasks/schemas.ts.  The routes are behind requireAuth,   *)
(* so a handler starts with request.userId set to a user's id.  tasks maps *)
(* the id the store gave a row to <<row>>, or to <<>> once it is deleted.  *)
(* ====================================================================== *)

(* The :id of a path: the ids of the rows the store can hold.              *)
TaskIds == 1 .. MaxRows

(* The title of a body: absent, the empty string, or a text.               *)
Titles == { <<>>, << <<>> >>, << <<"t">> >>, << <<"u">> >> }

(* A request of a tasks route suspended at a store call.                   *)
TaskReq(pc, route, userId, id, title) ==
    [Req(pc, route, <<>>, <<>>, <<>>, <<userId>>)
        EXCEPT !.id = id, !.body = title]

(* request.userId as string: the user requireAuth resolved.                *)
RequestUserIds == { u.id : u \in users }

(* CreateTaskSchema: title is z.string().min(1).                           *)
CreateTaskSchema(title) == title # <<>> /\ Len(title[1]) >= 1

(* UpdateTaskSchema: title is z.string().min(1).optional().                *)
UpdateTaskSchema(title) == title = <<>> \/ Len(title[1]) >= 1

(* .eq('id', taskId).eq('user_id', userId)                                 *)
TaskRows(userId, taskId) ==
    IF taskId \in DOMAIN tasks /\ tasks[taskId] # <<>>
       /\ tasks[taskId][1].user_id = userId
    THEN { tasks[taskId][1] }
    ELSE {}

(* A handler's response.                                                   *)
TaskRespond(r, status, error) ==
    Respond(r, reqs[r].route, <<>>, status, error, reqs[r].userId, TRUE, <<>>)

(* A handler's response with the rows the store returned in its body.      *)
TaskSend(r, status, data) ==
    /\ reqs' = [reqs EXCEPT ![r] = IdleReq]
    /\ sent' = [Reply(reqs[r].route, <<>>, status, <<>>, reqs[r].userId,
                      TRUE, <<>>) EXCEPT !.data = data]

(* POST /tasks/create up to the insert of createTask.                      *)
createTaskRoute(r, userId, title) ==
    /\ FreeSlot(r)
    /\ IF ~CreateTaskSchema(title)
       THEN Respond(r, "tasks.create", <<>>, 400, <<"Invalid input">>,
                    <<userId>>, TRUE, <<>>)
       ELSE Await(r, TaskReq("createTask", "tasks.create", userId, <<>>, title))
    /\ UNCHANGED <<users, sessions, clock, minted, tasks, cacheVars>>

(* createTask: insert(...).select('*').single(); the table's default for   *)
(* completed is false.                                                     *)
createTask(r, o) ==
    /\ reqs[r].pc = "createTask"
    /\ o = "ok" => Cardinality(DOMAIN tasks) < MaxRows
    /\ IF o = "ok"
       THEN /\ tasks' = tasks @@
                  (Cardinality(DOMAIN tasks) + 1 :>
                      <<[id |-> Cardinality(DOMAIN tasks) + 1,
                         user_id |-> reqs[r].userId[1],
                         title |-> reqs[r].body[1],
                         completed |-> FALSE,
                         completed_at |-> <<>>,
                         updated_at |-> clock]>>)
            /\ TaskSend(r, 201, tasks'[Cardinality(DOMAIN tasks) + 1])
       ELSE /\ tasks' = tasks
            /\ TaskRespond(r, 500, <<"Failed to create task">>)
    /\ UNCHANGED <<users, sessions, clock, minted, cacheVars>>

(* GET /tasks/:id up to the select of getTaskById.                         *)
getTaskRoute(r, userId, id) ==
    /\ FreeSlot(r)
    /\ Await(r, TaskReq("getTaskById", "tasks.get", userId, <<id>>, <<>>))
    /\ UNCHANGED <<users, sessions, clock, minted, tasks, cacheVars>>

(* getTaskById and the rest of GET /tasks/:id: PGRST116 is "not found",    *)
(* any other error is thrown and caught by the route.                      *)
getTaskById(r, o) ==
    /\ reqs[r].pc = "getTaskById"
    /\ reqs[r].route = "tasks.get"
    /\ LET res == Select(TaskRows(reqs[r].userId[1], reqs[r].id[1]), o)
       IN  IF o = "throw"
           THEN TaskRespond(r, 500, <<"Failed to fetch task">>)
           ELSE IF res.error # <<>>
           THEN IF res.error[1].code = "PGRST116"
                THEN TaskRespond(r, 404, <<"Task not found">>)
                ELSE TaskRespond(r, 500, <<"Failed to fetch task">>)
           ELSE TaskSend(r, 200, res.data)
    /\ UNCHANGED <<users, sessions, clock, minted, tasks, cacheVars>>

(* PATCH /tasks/:id up to the update of updateTask.                        *)
updateTaskRoute(r, userId, id, title) ==
    /\ FreeSlot(r)
    /\ IF ~UpdateTaskSchema(title)
       THEN Respond(r, "tasks.update", <<>>, 400, <<"Invalid input">>,
                    <<userId>>, TRUE, <<>>)
       ELSE Await(r, TaskReq("updateTask", "tasks.update", userId, <<id>>, title))
    /\ UNCHANGED <<users, sessions, clock, minted, tasks, cacheVars>>

(* updateTask and the rest of PATCH /tasks/:id:                            *)
(* update(...).eq(id).eq(user_id).select('*').single(); every error, the   *)
(* PGRST116 of a filter that matched no row included, is thrown and the    *)
(* route answers 500.                                                      *)
updateTask(r, o) ==
    /\ reqs[r].pc = "updateTask"
    /\ LET rows0 == TaskRows(reqs[r].userId[1], reqs[r].id[1])
       IN  IF o = "ok" /\ rows0 # {}
           THEN /\ tasks' = [tasks EXCEPT ![reqs[r].id[1]] =
                      <<[@[1] EXCEPT
                           !.title = IF reqs[r].body = <<>>
                                     THEN @ ELSE reqs[r].body[1],
                           !.updated_at = clock]>>]
                /\ TaskSend(r, 200, tasks'[reqs[r].id[1]])
           ELSE /\ tasks' = tasks
                /\ TaskRespond(r, 500, <<"Failed to update task">>)
    /\ UNCHANGED <<users, sessions, clock, minted, cacheVars>>

(* PATCH /tasks/:id/toggle up to the select of toggleTask's getTaskById.   *)
toggleTaskRoute(r, userId, id) ==
    /\ FreeSlot(r)
    /\ Await(r, TaskReq("getTaskById", "tasks.toggle", userId, <<id>>, <<>>))
    /\ UNCHANGED <<users, sessions, clock, minted, tasks, cacheVars>>

(* toggleTask after `await this.getTaskById(userId, taskId)`: no task is   *)
(* 404; otherwise `completed = !task.completed` is computed from the row   *)
(* read and carried to the update.                                         *)
toggleTaskGet(r, o) ==
    /\ reqs[r].pc = "getTaskById"
    /\ reqs[r].route = "tasks.toggle"
    /\ LET res == Select(TaskRows(reqs[r].userId[1], reqs[r].id[1]), o)
       IN  IF o = "throw"
           THEN TaskRespond(r, 500, <<"Failed to toggle task">>)
           ELSE IF res.error # <<>>
           THEN IF res.error[1].code = "PGRST116"
                THEN TaskRespond(r, 404, <<"Task not found">>)
                ELSE TaskRespond(r, 500, <<"Failed to toggle task">>)
           ELSE Await(r, [reqs[r] EXCEPT !.pc = "toggleTask",
                                         !.body = <<~res.data[1].completed>>])
    /\ UNCHANGED <<users, sessions, clock, minted, tasks, cacheVars>>

(* toggleTask's update and the rest of PATCH /tasks/:id/toggle.            *)
toggleTask(r, o) ==
    /\ reqs[r].pc = "toggleTask"
    /\ LET rows0 == TaskRows(reqs[r].userId[1], reqs[r].id[1])
           completed == reqs[r].body[1]
       IN  IF o = "ok" /\ rows0 # {}
           THEN /\ tasks' = [tasks EXCEPT ![reqs[r].id[1]] =
                      <<[@[1] EXCEPT
                           !.completed = completed,
                           !.completed_at = IF completed
                                            THEN <<clock>> ELSE <<>>,
                           !.updated_at = clock]>>]
                /\ TaskSend(r, 200, tasks'[reqs[r].id[1]])
           ELSE /\ tasks' = tasks
                /\ TaskRespond(r, 500, <<"Failed to toggle task">>)
    /\ UNCHANGED <<users, sessions, clock, minted, cacheVars>>

(* DELETE /tasks/:id up to the delete of deleteTask.                       *)
deleteTaskRoute(r, userId, id) ==
    /\ FreeSlot(r)
    /\ Await(r, TaskReq("deleteTask", "tasks.delete", userId, <<id>>, <<>>))
    /\ UNCHANGED <<users, sessions, clock, minted, tasks, cacheVars>>

(* deleteTask and the rest of DELETE /tasks/:id: delete().eq(id)           *)
(* .eq(user_id) is no error when it matches no row, and the route answers  *)
(* 200 { success: true }.                                                  *)
deleteTask(r, o) ==
    /\ reqs[r].pc = "deleteTask"
    /\ IF o = "ok"
       THEN /\ tasks' = IF TaskRows(reqs[r].userId[1], reqs[r].id[1]) # {}
                        THEN [tasks EXCEPT ![reqs[r].id[1]] = <<>>]
                        ELSE tasks
            /\ TaskRespond(r, 200, <<>>)
       ELSE /\ tasks' = tasks
            /\ TaskRespond(r, 500, <<"Failed to delete task">>)
    /\ UNCHANGED <<users, sessions, clock, minted, cacheVars>>

(* ------------------ schedule routes: GET /personal/:userId ------------ *)
(* core.personal_schedules: no route of the program writes it, so it is    *)
(* what the deployment holds. The second registered user has a schedule,   *)
(* the first has none.                                                     *)
personal_schedules ==
    { [user_id |-> 2, schedule_data |-> <<"class">>] }

PersonalRows(userId) == { s \in personal_schedules : s.user_id = userId }

(* GET /personal/:userId arrives for a request that requireAuth resolved   *)
(* to userId; the path parameter is :userId.                               *)
personalScheduleRoute(r, userId, pathUserId) ==
    /\ FreeSlot(r)
    /\ Await(r, TaskReq("personalSchedule", "schedule.personal", userId,
                        <<pathUserId>>, <<>>))
    /\ UNCHANGED <<users, sessions, clock, minted, tasks, cacheVars>>

(* The handler: the select filters on the path parameter; PGRST116 is an   *)
(* empty schedule, any other error is 500 with the store's message; the    *)
(* handler has no try/catch.                                               *)
personalSchedule(r, o) ==
    /\ reqs[r].pc = "personalSchedule"
    /\ LET res == Select(PersonalRows(reqs[r].id[1]), o)
       IN  IF o = "throw"
           THEN Uncaught(r, StoreMessage)
           ELSE IF res.error # <<>>
           THEN IF res.error[1].code = "PGRST116"
                THEN TaskSend(r, 200, <<>>)
                ELSE TaskRespond(r, 500,
                         <<"Error fetching personal schedule: ",
                           res.error[1].message>>)
           ELSE TaskSend(r, 200, res.data)
    /\ UNCHANGED <<users, sessions, clock, minted, tasks, cacheVars>>

(* The tasks and schedule routes, one request at a time, for two           *)
(* registered users.                                                       *)
TasksInit ==
    /\ cache = << >>
    /\ calls = [c \in Calls |-> IdleCall]
    /\ now = 0
    /\ nextSweep = SweepIntervalMs
    /\ ticks = 0
    /\ users = Registered
    /\ sessions = << >>
    /\ reqs = [r \in Requests |-> IdleReq]
    /\ clock = 0
    /\ minted = [tokens |-> 0, days |-> 0]
    /\ sent = NoReply
    /\ tasks = << >>
    /\ trail = NoTrail

TasksNext ==
    \/ \E r \in Serial, u \in RequestUserIds, t \in Titles : createTaskRoute(r, u, t)
    \/ \E r \in Serial, o \in Outcomes : createTask(r, o)
    \/ \E r \in Serial, u \in RequestUserIds, i \in TaskIds : getTaskRoute(r, u, i)
    \/ \E r \in Serial, o \in Outcomes : getTaskById(r, o)
    \/ \E r \in Serial, u \in RequestUserIds, i \in TaskIds, t \in Titles :
          updateTaskRoute(r, u, i, t)
    \/ \E r \in Serial, o \in Outcomes : updateTask(r, o)
    \/ \E r \in Serial, u \in RequestUserIds, i \in TaskIds : toggleTaskRoute(r, u, i)
    \/ \E r \in Serial, o \in Outcomes : toggleTaskGet(r, o)
    \/ \E r \in Serial, o \in Outcomes : toggleTask(r, o)
    \/ \E r \in Serial, u \in RequestUserIds, i \in TaskIds : deleteTaskRoute(r, u, i)
    \/ \E r \in Serial, o \in Outcomes : deleteTask(r, o)
    \/ \E r \in Serial, u \in RequestUserIds, p \in RequestUserIds :
          personalScheduleRoute(r, u, p)
    \/ \E r \in Serial, o \in Outcomes : personalSchedule(r, o)
    \/ \E d \in DaySteps : Day(d)

TasksSpec == TasksInit /\ [][TasksNext]_vars

(* A request addressing one task by id is at the store call that decides   *)
(* whether the caller has such a task, and the caller has none.            *)
AddressesNone(r) ==
    /\ reqs[r].pc \in { "getTaskById", "updateTask", "deleteTask" }
    /\ TaskRows(reqs[r].userId[1], reqs[r].id[1]) = {}

(* The store answers that call (no error of its own, no rejection).        *)
StoreAnswers(r) ==
    \/ getTaskById(r, "ok")
    \/ toggleTaskGet(r, "ok")
    \/ updateTask(r, "ok")
    \/ deleteTask(r, "ok")

(* C19: a get, update, toggle or delete addressing a task by an id that    *)
(* does not exist or that belongs to another user is answered 404 and      *)
(* changes nothing.                                                        *)
C19_AbsentOrForeignIs404 ==
    [][ \A r \in Requests :
          AddressesNone(r) /\ StoreAnswers(r)
          => sent'.status = 404 /\ tasks' = tasks
      ]_vars

(* A store call of the auth routes' own work (the check for an existing    *)
(* user, the inserts of the user and of the session, the lookup by email,  *)
(* the delete of signout) fails for request r: the store answers with an   *)
(* error, or the awaited promise rejects.                                  *)
StoreFails(r) ==
    \E o \in Outcomes \ { "ok" } :
        \/ signupExisting(r, o)
        \/ signup(r, o)
        \/ signin(r, o)
        \/ createSession(r, o)
        \/ signout(r, o)

(* The store's error text is part of the body sent.                        *)
CarriesStoreText(reply) ==
    \E i \in 1..Len(reply.error) : reply.error[i] = StoreMessage

(* C20: a failure of the store during a request ends the request with      *)
(* status 500 and a generic message that does not contain the store's      *)
(* error text; the operation is not tried again.                           *)
C20_StoreFailureIs500Generic ==
    [][ \A r \in Requests :
          StoreFails(r)
          => /\ reqs'[r].pc = "idle"
             /\ sent'.status = 500
             /\ ~CarriesStoreText(sent')
      ]_vars

C22_SignoutEndsOneSession ==
    /\ [][\A r \in Requests :
             signout(r, "ok")
             => /\ sent'.status = 200
                /\ sent'.cookie = <<"clear">>
                /\ reqs[r].token[1] \notin DOMAIN sessions'
                /\ \A t \in DOMAIN sessions \ {reqs[r].token[1]} :
                      t \in DOMAIN sessions' /\ sessions'[t] = sessions[t]]_vars
    /\ [][\A r \in Requests :
             (signout(r, "error") \/ signout(r, "throw"))
             => /\ sent'.status >= 400
                /\ sent'.error # <<>>
                /\ sent'.cookie = <<>>
                /\ sessions' = sessions]_vars
    /\ [][\A t \in 1..minted.tokens :
             t \notin DOMAIN sessions => t \notin DOMAIN sessions']_vars
    /\ [][\A r \in Requests :
             (reqs[r].pc = "lookup" /\ reqs[r].token[1] \notin DOMAIN sessions
                /\ reqs'[r] # reqs[r])
             => /\ Answers(r)
                /\ sent'.userId = <<>>
                /\ sent'.status # 200 \/ reqs[r].route = "permissive"]_vars

(* Before any session could expire, the token of a session that a signout  *)
(* removed was refused by requireAuth while another session is stored.     *)
C22_Witness ==
    /\ sent.route = "strict"
    /\ sent.status = 401
    /\ sent.token = <<1>>
    /\ minted.tokens = 2
    /\ DOMAIN sessions = {2}
    /\ clock = 0

(* The answer that names neither the email nor the password as the cause.  *)
InvalidCredentials(status) ==
    /\ sent'.status = status
    /\ sent'.error = <<"Invalid email or password">>
    /\ sent'.userId = <<>>
    /\ sent'.cookie = <<>>

(* The password of request r is the one stored for a user of its email.    *)
PasswordMatches(r) ==
    \E u \in UsersByEmail(reqs[r].email) :
        bcryptCompare(reqs[r].password, u.password_hash)

(* C23: a signin with an email that is not registered and a signin with a  *)
(* registered email and a wrong password get the same answer, 401 'Invalid *)
(* email or password'; a signup with a registered email is answered with   *)
(* the same error text (status 400) and creates neither a user nor a       *)
(* session.  Stated for the steps in which the store answers the lookup.   *)
C23_NoEmailEnumeration ==
    [][\A r \in Requests :
          /\ (signin(r, "ok") /\ UsersByEmail(reqs[r].email) = {})
             => InvalidCredentials(401) /\ Answers(r)
          /\ (signin(r, "ok") /\ UsersByEmail(reqs[r].email) # {}
                /\ ~PasswordMatches(r))
             => InvalidCredentials(401) /\ Answers(r)
          /\ (signupExisting(r, "ok") /\ UsersByEmail(reqs[r].email) # {})
             => /\ InvalidCredentials(400) /\ Answers(r)
                /\ users' = users
                /\ sessions' = sessions]_vars

(* ---------------- isolation and overlap in the cache ------------------- *)
(* C25: a call of getCachedOrFetch(u, e, ...) that returns a cached value  *)
(* returns the one stored for the pair (u, e): no value produced and       *)
(* stored for another pair (u', e') is returned.                           *)
C25_PairsIsolated ==
    [][\A c \in Calls, p \in Pairs, t \in TtlChoices :
          (getCachedOrFetch(c, p[1], p[2], t) /\ calls'[c].pc = "returned")
          => HoldsFor(p[1], p[2])]_vars

(* ====================================================================== *)
(* The cache with its history: the same steps, with trail recording which  *)
(* suspended calls an invalidation crossed and which call stored each      *)
(* entry.  Calls start in the order of their numbers (getCachedOrFetch     *)
(* takes the lowest idle one), so a higher number is a later start.        *)
(* ====================================================================== *)

(* The calls suspended at `await fetchFn()` for owner u and endpoint e.    *)
InFlight(u, e) ==
    { c \in Calls : /\ calls[c].pc = "awaiting"
                    /\ calls[c].userId = u
                    /\ calls[c].endpoint = e }

(* The calls suspended at `await fetchFn()` for owner u.                   *)
InFlightOf(u) ==
    { c \in Calls : calls[c].pc = "awaiting" /\ calls[c].userId = u }

(* Lines 42-50, recording the call that stores.                            *)
fetchResolvedTraced(c, data) ==
    /\ calls[c].pc = "awaiting"
    /\ cache' = MapSet(cache, calls[c].key,
                       [data |-> data,
                        expiresAt |-> ExpiresAt(now, calls[c].ttlMinutes),
                        owner |-> calls[c].userId,
                        endpoint |-> calls[c].endpoint,
                        storedAt |-> now,
                        ttl |-> calls[c].ttlMinutes])
    /\ calls' = [calls EXCEPT ![c] = Settled("returned", calls[c].via, 1, data, "none")]
    /\ trail' = [trail EXCEPT !.writer = MapSet(@, calls[c].key, c)]
    /\ UNCHANGED <<now, nextSweep, ticks>>
    /\ UNCHANGED httpVars

(* Lines 56-59, recording the suspended calls for (userId, endpoint).      *)
clearTraced(userId, endpoint) ==
    /\ cache' = MapDelete(cache, {getCacheKey(userId, endpoint)})
    /\ trail' = [trail EXCEPT !.crossed = @ \cup InFlight(userId, endpoint)]
    /\ UNCHANGED <<calls, now, nextSweep, ticks>>
    /\ UNCHANGED httpVars

(* Lines 64-70, recording the suspended calls of userId.                   *)
clearUserTraced(userId) ==
    /\ cache' = MapDelete(cache,
                    {k \in DOMAIN cache : startsWith(k, userId \o <<":">>)})
    /\ trail' = [trail EXCEPT !.crossed = @ \cup InFlightOf(userId)]
    /\ UNCHANGED <<calls, now, nextSweep, ticks>>
    /\ UNCHANGED httpVars

(* Lines 75-77, recording every suspended call.                            *)
clearAllTraced ==
    /\ cache' = << >>
    /\ trail' = [trail EXCEPT !.crossed =
                    @ \cup { c \in Calls : calls[c].pc = "awaiting" }]
    /\ UNCHANGED <<calls, now, nextSweep, ticks>>
    /\ UNCHANGED httpVars

TraceNext ==
    \/ \E c \in Calls, p \in LivePairs, t \in TtlChoices :
          getCachedOrFetch(c, p[1], p[2], t)
    \/ \E c \in Calls, v \in Values : fetchResolvedTraced(c, v)
    \/ \E c \in Calls, e \in Errors : fetchRejected(c, e)
    \/ \E u \in UserIds : clearUserTraced(u)
    \/ \E p \in LivePairs : clearTraced(p[1], p[2])
    \/ clearAllTraced
    \/ cleanupExpired
    \/ \E d \in TickSteps : Tick(d)

TraceSpec == Init /\ [][TraceNext]_vars

(* C24: a call of getCachedOrFetch(u, e, ...) that returns a cached value  *)
(* never returns one stored by a call whose producer was invoked before an *)
(* invalidation of (u, e) (clear, clearUser or clearAll) that had returned *)
(* when this call was made.                                                *)
C24_NoValueFromBeforeInvalidation ==
    [][\A c \in Calls, p \in LivePairs, t \in TtlChoices :
          (getCachedOrFetch(c, p[1], p[2], t) /\ calls'[c].pc = "returned")
          => trail.writer[getCacheKey(p[1], p[2])] \notin trail.crossed]_vars

(* C26: a call whose fetch completes when the entry under its key was      *)
(* stored by a call that started later does not replace that entry's       *)
(* value.                                                                  *)
C26_LastStartedWins ==
    [][\A c \in Calls, v \in Values :
          ( /\ fetchResolvedTraced(c, v)
            /\ Present(calls[c].key)
            /\ trail.writer[calls[c].key] > c )
          => cache'[calls[c].key].data = cache[calls[c].key].data]_vars

(* The request that the step answers.                                      *)
Answered(r) == reqs[r].pc # "idle" /\ reqs'[r].pc = "idle"

(* Every row of the body sent belongs to the user the request was          *)
(* authenticated as.                                                       *)
ReturnsOwn(r) ==
    \A i \in 1..Len(sent'.data) : sent'.data[i].user_id = reqs[r].userId[1]

(* Every task row the step creates, changes or removes belongs to that     *)
(* user.                                                                   *)
ChangesOwn(r) ==
    \A i \in DOMAIN tasks' :
        /\ i \in DOMAIN tasks /\ tasks'[i] # tasks[i]
           => tasks[i] # <<>> /\ tasks[i][1].user_id = reqs[r].userId[1]
        /\ i \notin DOMAIN tasks
           => tasks'[i][1].user_id = reqs[r].userId[1]

(* C27: no request authenticated as one user returns or changes data      *)
(* owned by another: the rows a resource route sends, updates or deletes   *)
(* are owned by the identity requireAuth resolved for the request.         *)
C27_OwnDataOnly ==
    [][ \A r \in Requests : Answered(r) => ReturnsOwn(r) /\ ChangesOwn(r)
      ]_vars

(* ------------------ concurrent PATCH /tasks/:id/toggle ---------------- *)
(* Tasks are created and toggled by requests that overlap: each slot is a  *)
(* request suspended at its own store call, and the store calls of         *)
(* different requests complete in any order.                               *)
ToggleNext ==
    \/ \E r \in Requests, u \in RequestUserIds, t \in Titles : createTaskRoute(r, u, t)
    \/ \E r \in Requests, o \in Outcomes : createTask(r, o)
    \/ \E r \in Requests, u \in RequestUserIds, i \in TaskIds : toggleTaskRoute(r, u, i)
    \/ \E r \in Requests, o \in Outcomes : toggleTaskGet(r, o)
    \/ \E r \in Requests, o \in Outcomes : toggleTask(r, o)

ToggleSpec == TasksInit /\ [][ToggleNext]_vars

(* C28: every successful toggle flips the stored completed flag of its     *)
(* task, so that N successful toggles leave the initial value flipped N    *)
(* times whatever their interleaving, and completed_at is set exactly      *)
(* when completed is true.                                                 *)
C28_NoToggleLost ==
    [][ \A r \in Requests :
          toggleTask(r, "ok") /\ sent'.status = 200
          => LET id == reqs[r].id[1]
             IN  /\ tasks'[id][1].completed = ~tasks[id][1].completed
                 /\ tasks'[id][1].completed_at # <<>>
                       <=> tasks'[id][1].completed
      ]_vars

(* ------------------ concurrent POST /signup --------------------------- *)
(* Signup requests that overlap: each slot is a request suspended at one   *)
(* of signup's store calls (the existence check, the insert of the user,   *)
(* the insert of the session), and the store calls of different requests   *)
(* complete in any order.                                                  *)
SignupNext ==
    \/ \E r \in Requests, e \in Emails, n \in Names, p \in Passwords :
          signupRoute(r, e, n, p)
    \/ \E r \in Requests, o \in Outcomes : signupExisting(r, o)
    \/ \E r \in Requests, o \in Outcomes : signup(r, o)
    \/ \E r \in Requests, o \in Outcomes : createSession(r, o)

SignupSpec == Init /\ [][SignupNext]_vars

(* C29: signup never creates two user records with the same email,        *)
(* whatever the interleaving of the signup requests for that email.        *)
C29_OneUserPerEmail ==
    \A u \in users, v \in users : u.email = v.email => u = v

(* C30: signup is all-or-nothing: when a signup request is answered,      *)
(* either it succeeded and the user record and a session for it exist, or  *)
(* it failed and the user record it inserted, if any, does not exist.      *)
C30_SignupAllOrNothing ==
    [][ \A r \in Requests :
          Answered(r) /\ reqs[r].route = "signup"
          => IF sent'.status = 201
             THEN \E u \in users' :
                     /\ u.email = reqs[r].email
                     /\ \E t \in DOMAIN sessions' : sessions'[t].user_id = u.id
             ELSE \/ reqs[r].userId = <<>>
                  \/ { u \in users' : u.id = reqs[r].userId[1] } = {}
      ]_vars

====
